---------------------------- MODULE Spec2Model ----------------------------
(***************************************************************************)
(* Model of aimakerspace/text_utils.py: the three document loaders         *)
(* (TextFileLoader, PDFFileLoader, DocumentLoader) and the                 *)
(* CharacterTextSplitter.                                                  *)
(*                                                                         *)
(* A text is a sequence of one-character strings.  A document list is a    *)
(* sequence of texts.  Two specifications are given: Spec drives the       *)
(* loaders over a fixed filesystem, SplitSpec drives the splitter.         *)
(*                                                                         *)
(* The splitter is built with chunk_size >= 1 and chunk_overlap >= 0, the  *)
(* values the configuration is meant for; __init__ itself only asserts     *)
(* chunk_size > chunk_overlap.                                             *)
(***************************************************************************)
EXTENDS Integers, Sequences, FiniteSets, TLC

(***************************************************************************)
(* Bounds of the model.                                                    *)
(***************************************************************************)
MaxChunkSize == 4      \* chunk_size and chunk_overlap arguments range over 0..MaxChunkSize
MaxLen == 6            \* longest text handed to split
MaxDocLen == 2         \* longest document handed to split_texts
MaxTexts == 2          \* longest document list handed to split_texts
MaxFiles == 3          \* most files under a directory
MaxCalls == 2          \* most load_documents calls in one run

VARIABLES
    \* ---- the runtime and the filesystem, fixed during a run
    PDF_AVAILABLE,     \* module global: TRUE iff "import pypdf" succeeded
    path,              \* what the path given to the loaders names: [kind, suffix, files]
    \* ---- one TextFileLoader and one PDFFileLoader built on path
    txt_documents,     \* TextFileLoader.documents
    pdf_documents,     \* PDFFileLoader.documents
    \* ---- what the caller has seen
    ret,               \* outcome of the last load_documents call
    txt_returned,      \* the lists TextFileLoader.load_documents returned, as they were on return
    pdf_returned,      \* the lists PDFFileLoader.load_documents returned, as they were on return
    calls,             \* number of load_documents calls made
    \* ---- the splitter object and the last call made on it
    constructed,       \* TRUE once CharacterTextSplitter.__init__ has returned
    chunk_size,        \* self.chunk_size
    chunk_overlap,     \* self.chunk_overlap
    given,             \* the caller's list of texts, fixed during a run
    call,              \* the last call on the splitter: [op, arg, exc]
    chunks             \* the list that call returned

splitVars == <<constructed, chunk_size, chunk_overlap, given, call, chunks>>

loaderVars == <<PDF_AVAILABLE, path, txt_documents, pdf_documents, ret,
                txt_returned, pdf_returned, calls>>

vars == <<loaderVars, splitVars>>

Min(a, b) == IF a < b THEN a ELSE b
Max(a, b) == IF a > b THEN a ELSE b

Alphabet == {"a", "b"}

\* all texts over Alphabet of length at most n
Texts(n) == UNION {[1..k -> Alphabet] : k \in 0..n}

\* all sequences over S of length at most n
SeqsUpTo(S, n) == UNION {[1..k -> S] : k \in 0..n}

\* the concatenation of a sequence of sequences, by index
ConcatAll(ss) ==
    LET total(n) == LET RECURSIVE sum(_)
                        sum(i) == IF i = 0 THEN 0 ELSE Len(ss[i]) + sum(i - 1)
                    IN sum(n)
        owner(j) == CHOOSE i \in 1..Len(ss) : total(i - 1) < j /\ j <= total(i)
    IN [j \in 1..total(Len(ss)) |-> ss[owner(j)][j - total(owner(j) - 1)]]

(***************************************************************************)
(* Python built-ins used by the splitter.                                  *)
(***************************************************************************)

\* range with an inclusive stop: one value too many when step divides stop
RECURSIVE range_inclusive(_, _, _)
range_inclusive(start, stop, step) ==
    IF stop <= 0 \/ start > stop THEN <<>>
    ELSE <<start>> \o range_inclusive(start + step, stop, step)

\* range(start, stop, step) for step > 0, as the list of its values
RECURSIVE range(_, _, _)
range(start, stop, step) ==
    IF start >= stop THEN <<>>
    ELSE <<start>> \o range(start + step, stop, step)

\* a slice bound i normalised against a length n: negative counts from the
\* end, then clamped into 0..n
SliceBound(i, n) == IF i < 0 THEN Max(i + n, 0) ELSE Min(i, n)

\* text[lo : hi + 1]: a slice that takes one character too many
slice_inclusive(text, lo, hi) ==
    SubSeq(text, SliceBound(lo, Len(text)) + 1, SliceBound(hi + 1, Len(text)))

\* text[lo : hi]
slice(text, lo, hi) ==
    SubSeq(text, SliceBound(lo, Len(text)) + 1, SliceBound(hi, Len(text)))

(***************************************************************************)
(* The filesystem.                                                         *)
(*                                                                         *)
(* A file is [ext, ok, encrypted, data, pages]: ext is the suffix of its   *)
(* name; for a .txt file ok says its bytes decode in the loader's encoding *)
(* and data is the decoded content; for a .pdf file ok says pypdf can      *)
(* parse it, encrypted is PdfReader.is_encrypted and pages holds what      *)
(* extract_text returns for each page.                                     *)
(***************************************************************************)

Whitespace == {" ", "\n"}

TxtFile(ok, data) ==
    [ext |-> "txt", ok |-> ok, encrypted |-> FALSE, data |-> data, pages |-> <<>>]

PdfFile(ok, encrypted, pages) ==
    [ext |-> "pdf", ok |-> ok, encrypted |-> encrypted, data |-> <<>>, pages |-> pages]

OtherFile ==
    [ext |-> "md", ok |-> TRUE, encrypted |-> FALSE, data |-> <<"x">>, pages |-> <<>>]

Files ==
    { TxtFile(TRUE, <<"a">>),                       \* a text file
      TxtFile(TRUE, <<>>),                          \* an empty text file
      TxtFile(TRUE, <<" ">>),                       \* a whitespace-only text file
      TxtFile(FALSE, <<>>),                         \* bytes invalid for the encoding
      PdfFile(TRUE, FALSE, << <<"b">> >>),          \* a one-page PDF
      PdfFile(TRUE, FALSE, << <<"c", " ">>, <<" ">>, <<"d">> >>),  \* a blank page between two
      PdfFile(TRUE, TRUE, << <<"e">> >>),           \* password-protected
      PdfFile(FALSE, FALSE, <<>>),                  \* corrupt: PdfReader raises
      PdfFile(TRUE, FALSE, << <<" ">> >>),          \* no text on any page
      OtherFile }

Suffixes == {"txt", "pdf", "md"}

\* what the path can name: nothing, one regular file, or a directory whose
\* files are listed in the order os.walk yields them
Paths ==
    {[kind |-> "missing", suffix |-> x, files |-> <<>>] : x \in Suffixes}
    \cup {[kind |-> "file", suffix |-> f.ext, files |-> <<f>>] : f \in Files}
    \cup {[kind |-> "dir", suffix |-> x, files |-> fs] :
              x \in {"", "txt"}, fs \in SeqsUpTo(Files, MaxFiles)}

isdir(p) == p.kind = "dir"
isfile(p) == p.kind = "file"

(***************************************************************************)
(* Exceptions.  The outcome of a method is [exc, why, docs, opened]: the   *)
(* exception class raised ("none" if it returned), which raise statement   *)
(* raised it, self.documents when it ended, and the files it opened, in    *)
(* order, by their position in path.files.                                 *)
(***************************************************************************)

Outcome(exc, why, docs, opened) ==
    [exc |-> exc, why |-> why, docs |-> docs, opened |-> opened]

\* "except ValueError" catches ValueError and its subclasses;
\* UnicodeDecodeError derives from UnicodeError, which derives from ValueError
IsValueError(exc) == exc \in {"ValueError", "UnicodeDecodeError"}

(***************************************************************************)
(* str.strip                                                               *)
(***************************************************************************)

\* strip that strips nothing
strip_nothing(text) == text

RECURSIVE lstrip(_)
lstrip(text) ==
    IF text # <<>> /\ Head(text) \in Whitespace THEN lstrip(Tail(text)) ELSE text

RECURSIVE rstrip(_)
rstrip(text) ==
    IF text # <<>> /\ text[Len(text)] \in Whitespace
    THEN rstrip(SubSeq(text, 1, Len(text) - 1))
    ELSE text

strip(text) == rstrip(lstrip(text))

(***************************************************************************)
(* TextFileLoader                                                          *)
(***************************************************************************)

text_load_file(p, docs) ==
    IF p.files[1].ok
    THEN Outcome("none", "", Append(docs, p.files[1].data), <<1>>)
    ELSE Outcome("UnicodeDecodeError", "read", docs, <<1>>)

\* the walk of load_directory from file i on
RECURSIVE text_walk(_, _, _, _)
text_walk(p, i, docs, opened) ==
    IF i > Len(p.files) THEN Outcome("none", "", docs, opened)
    ELSE IF p.files[i].ext # "txt" THEN text_walk(p, i + 1, docs, opened)
    ELSE IF p.files[i].ok
         THEN text_walk(p, i + 1, Append(docs, p.files[i].data), Append(opened, i))
         ELSE Outcome("UnicodeDecodeError", "read", docs, Append(opened, i))

text_load_directory(p, docs) == text_walk(p, 1, docs, <<>>)

text_load(p, docs) ==
    IF isdir(p) THEN text_load_directory(p, docs)
    ELSE IF isfile(p) /\ p.suffix = "txt" THEN text_load_file(p, docs)
    ELSE Outcome("ValueError", "not a directory or .txt file", docs, <<>>)

(***************************************************************************)
(* PDFFileLoader                                                           *)
(***************************************************************************)

\* the page loop: every page whose text is not blank, followed by "\n\n"
RECURSIVE extract_pages(_, _)
extract_pages(pages, full_text) ==
    IF pages = <<>> THEN full_text
    ELSE extract_pages(Tail(pages),
                       IF strip(Head(pages)) # <<>>
                       THEN full_text \o Head(pages) \o <<"\n", "\n">>
                       ELSE full_text)

\* every raise inside the try of load_file, and every error of pypdf, is
\* caught by "except Exception" and raised again as ValueError
pdf_load_file(p, docs) ==
    LET f == p.files[1]
        full_text == extract_pages(f.pages, <<>>)
    IN IF ~f.ok THEN Outcome("ValueError", "pypdf error", docs, <<1>>)
       ELSE IF f.encrypted THEN Outcome("ValueError", "password-protected", docs, <<1>>)
       ELSE IF strip(full_text) # <<>>
            THEN Outcome("none", "", Append(docs, strip(full_text)), <<1>>)
            ELSE Outcome("ValueError", "no readable text", docs, <<1>>)

\* a walk that gives up at the first PDF it cannot read
RECURSIVE pdf_walk_stop_at_bad(_, _, _, _)
pdf_walk_stop_at_bad(p, i, docs, opened) ==
    IF i > Len(p.files) THEN Outcome("none", "", docs, opened)
    ELSE IF p.files[i].ext # "pdf" THEN pdf_walk_stop_at_bad(p, i + 1, docs, opened)
    ELSE IF ~p.files[i].ok \/ p.files[i].encrypted
         THEN Outcome("none", "", docs, Append(opened, i))
    ELSE LET full_text == extract_pages(p.files[i].pages, <<>>)
         IN pdf_walk_stop_at_bad(p, i + 1,
                     IF strip(full_text) # <<>> THEN Append(docs, strip(full_text))
                                                ELSE docs,
                     Append(opened, i))

\* the walk of load_directory from file i on: a PDF that pypdf cannot read
\* or that is encrypted is skipped, one without text adds nothing
RECURSIVE pdf_walk(_, _, _, _)
pdf_walk(p, i, docs, opened) ==
    IF i > Len(p.files) THEN Outcome("none", "", docs, opened)
    ELSE IF p.files[i].ext # "pdf" THEN pdf_walk(p, i + 1, docs, opened)
    ELSE IF ~p.files[i].ok \/ p.files[i].encrypted
         THEN pdf_walk(p, i + 1, docs, Append(opened, i))
    ELSE LET full_text == extract_pages(p.files[i].pages, <<>>)
         IN pdf_walk(p, i + 1,
                     IF strip(full_text) # <<>> THEN Append(docs, strip(full_text))
                                                ELSE docs,
                     Append(opened, i))

pdf_load_directory(p, docs) == pdf_walk(p, 1, docs, <<>>)

pdf_load(p, docs, available) ==
    IF ~available THEN Outcome("ImportError", "pypdf is required", docs, <<>>)
    ELSE IF isdir(p) THEN pdf_load_directory(p, docs)
    ELSE IF isfile(p) /\ p.suffix = "pdf" THEN pdf_load_file(p, docs)
    ELSE Outcome("ValueError", "not a directory or .pdf file", docs, <<>>)

(***************************************************************************)
(* DocumentLoader                                                          *)
(***************************************************************************)

\* the directory branch with the two loaders run in the other order
document_load_directory_pdf_first(p, available) ==
    LET pdf == pdf_load(p, <<>>, available)
        txt == text_load(p, <<>>)
        fromPdf == IF pdf.exc = "none" THEN pdf.docs ELSE <<>>
        fromTxt == IF txt.exc = "none" THEN txt.docs ELSE <<>>
    IN IF ~IsValueError(pdf.exc) /\ pdf.exc # "none"
       THEN Outcome(pdf.exc, pdf.why, <<>>, pdf.opened)
       ELSE IF ~IsValueError(txt.exc) /\ txt.exc # "none"
       THEN Outcome(txt.exc, txt.why, <<>>, pdf.opened \o txt.opened)
       ELSE IF fromPdf \o fromTxt = <<>>
       THEN Outcome("ValueError", "no readable files", <<>>, pdf.opened \o txt.opened)
       ELSE Outcome("none", "", fromPdf \o fromTxt, pdf.opened \o txt.opened)

\* the directory branch: a TextFileLoader, then a PDFFileLoader, both new;
\* "except ValueError: pass" drops whatever the loader that raised had read
document_load_directory(p, available) ==
    LET txt == text_load(p, <<>>)
        pdf == pdf_load(p, <<>>, available)
        fromTxt == IF txt.exc = "none" THEN txt.docs ELSE <<>>
        fromPdf == IF pdf.exc = "none" THEN pdf.docs ELSE <<>>
    IN IF ~IsValueError(txt.exc) /\ txt.exc # "none"
       THEN Outcome(txt.exc, txt.why, <<>>, txt.opened)
       ELSE IF ~IsValueError(pdf.exc) /\ pdf.exc # "none"
       THEN Outcome(pdf.exc, pdf.why, <<>>, txt.opened \o pdf.opened)
       ELSE IF fromTxt \o fromPdf = <<>>
       THEN Outcome("ValueError", "no readable files", <<>>, txt.opened \o pdf.opened)
       ELSE Outcome("none", "", fromTxt \o fromPdf, txt.opened \o pdf.opened)

document_load(p, available) ==
    IF isfile(p)
    THEN IF p.suffix = "txt" THEN text_load(p, <<>>)
         ELSE IF p.suffix = "pdf" THEN pdf_load(p, <<>>, available)
         ELSE Outcome("ValueError", "unsupported file type", <<>>, <<>>)
    ELSE IF isdir(p) THEN document_load_directory(p, available)
    ELSE Outcome("ValueError", "path does not exist", <<>>, <<>>)

(***************************************************************************)
(* The calls a client can make.                                            *)
(***************************************************************************)

\* what the caller gets: the list if the call returned, nothing if it raised
Returned(op, r) ==
    [op |-> op, exc |-> r.exc, why |-> r.why,
     value |-> IF r.exc = "none" THEN r.docs ELSE <<>>, opened |-> r.opened]

TextFileLoader_load_documents ==
    /\ calls < MaxCalls
    /\ LET r == text_load(path, txt_documents)
       IN /\ txt_documents' = r.docs
          /\ ret' = Returned("TextFileLoader", r)
          /\ txt_returned' = IF r.exc = "none" THEN Append(txt_returned, r.docs)
                                               ELSE txt_returned
    /\ calls' = calls + 1
    /\ UNCHANGED <<PDF_AVAILABLE, path, pdf_documents, pdf_returned>>
    /\ UNCHANGED splitVars

PDFFileLoader_load_documents ==
    /\ calls < MaxCalls
    /\ LET r == pdf_load(path, pdf_documents, PDF_AVAILABLE)
       IN /\ pdf_documents' = r.docs
          /\ ret' = Returned("PDFFileLoader", r)
          /\ pdf_returned' = IF r.exc = "none" THEN Append(pdf_returned, r.docs)
                                               ELSE pdf_returned
    /\ calls' = calls + 1
    /\ UNCHANGED <<PDF_AVAILABLE, path, txt_documents, txt_returned>>
    /\ UNCHANGED splitVars

DocumentLoader_load_documents ==
    /\ calls < MaxCalls
    /\ ret' = Returned("DocumentLoader", document_load(path, PDF_AVAILABLE))
    /\ calls' = calls + 1
    /\ UNCHANGED <<PDF_AVAILABLE, path, txt_documents, pdf_documents,
                   txt_returned, pdf_returned>>
    /\ UNCHANGED splitVars

NoReturn == [op |-> "none", exc |-> "none", why |-> "", value |-> <<>>, opened |-> <<>>]

\* the loaders just built on the path, nothing called yet
LoaderFresh ==
    /\ txt_documents = <<>>
    /\ pdf_documents = <<>>
    /\ ret = NoReturn
    /\ txt_returned = <<>>
    /\ pdf_returned = <<>>
    /\ calls = 0

(***************************************************************************)
(* CharacterTextSplitter                                                   *)
(***************************************************************************)

\* the body of the for loop of split, over the remaining range values
RECURSIVE split_loop(_, _, _, _)
split_loop(text, size, idx, acc) ==
    IF idx = <<>> THEN acc
    ELSE split_loop(text, size, Tail(idx),
                    Append(acc, slice(text, Head(idx), Head(idx) + size)))

\* split that advances by chunk_size, forgetting the overlap
split_no_overlap(text, size, overlap) ==
    split_loop(text, size, range(0, Len(text), size), <<>>)

split(text, size, overlap) ==
    split_loop(text, size, range(0, Len(text), size - overlap), <<>>)

RECURSIVE JoinTexts(_)
JoinTexts(texts) ==
    IF texts = <<>> THEN <<>> ELSE Head(texts) \o JoinTexts(Tail(texts))

\* split_texts that splits the documents joined into one text
split_texts_joined(texts, size, overlap) ==
    split(JoinTexts(texts), size, overlap)

RECURSIVE split_texts(_, _, _)
split_texts(texts, size, overlap) ==
    IF texts = <<>> THEN <<>>
    ELSE split(Head(texts), size, overlap) \o split_texts(Tail(texts), size, overlap)

NoCall == [op |-> "none", arg |-> 0, exc |-> "none"]

\* CharacterTextSplitter(size, overlap): the assert either lets the object
\* be built or raises AssertionError and leaves the caller without one
CharacterTextSplitter_init(size, overlap) ==
    /\ IF size > overlap
       THEN /\ constructed' = TRUE
            /\ chunk_size' = size
            /\ chunk_overlap' = overlap
            /\ call' = [op |-> "__init__", arg |-> 0, exc |-> "none"]
       ELSE /\ constructed' = FALSE
            /\ chunk_size' = 0
            /\ chunk_overlap' = 0
            /\ call' = [op |-> "__init__", arg |-> 0, exc |-> "AssertionError"]
    /\ chunks' = <<>>
    /\ UNCHANGED given
    /\ UNCHANGED loaderVars

\* splitter.split(given[i])
Split(i) ==
    /\ constructed
    /\ chunks' = split(given[i], chunk_size, chunk_overlap)
    /\ call' = [op |-> "split", arg |-> i, exc |-> "none"]
    /\ UNCHANGED <<constructed, chunk_size, chunk_overlap, given>>
    /\ UNCHANGED loaderVars

\* splitter.split_texts(given)
SplitTexts ==
    /\ constructed
    /\ chunks' = split_texts(given, chunk_size, chunk_overlap)
    /\ call' = [op |-> "split_texts", arg |-> 0, exc |-> "none"]
    /\ UNCHANGED <<constructed, chunk_size, chunk_overlap, given>>
    /\ UNCHANGED loaderVars

SplitterFresh ==
    /\ constructed = FALSE
    /\ chunk_size = 0
    /\ chunk_overlap = 0
    /\ call = NoCall
    /\ chunks = <<>>

SplitNext ==
    \/ \E size \in 1..MaxChunkSize, overlap \in 0..MaxChunkSize :
           CharacterTextSplitter_init(size, overlap)
    \/ \E i \in 1..Len(given) : Split(i)
    \/ SplitTexts

\* the loaders over any filesystem, with or without pypdf
Init ==
    /\ PDF_AVAILABLE \in BOOLEAN
    /\ path \in Paths
    /\ LoaderFresh
    /\ SplitterFresh
    /\ given = <<>>

Next ==
    \/ TextFileLoader_load_documents
    \/ PDFFileLoader_load_documents
    \/ DocumentLoader_load_documents

Spec == Init /\ [][Next]_vars

\* the lists of texts a run of the splitter starts from: one text of any
\* length up to MaxLen, or up to MaxTexts documents of up to MaxDocLen
SplitInputs ==
    {<<t>> : t \in Texts(MaxLen)} \cup SeqsUpTo(Texts(MaxDocLen), MaxTexts)

\* the splitter alone, over any such list
SplitInit ==
    /\ PDF_AVAILABLE = TRUE
    /\ path = [kind |-> "missing", suffix |-> "txt", files |-> <<>>]
    /\ LoaderFresh
    /\ SplitterFresh
    /\ given \in SplitInputs

SplitSpec == SplitInit /\ [][SplitNext]_vars

(***************************************************************************)
(* Properties of the splitter, checked under SplitSpec.                    *)
(***************************************************************************)

Stride == chunk_size - chunk_overlap

CeilDiv(a, b) == (a + b - 1) \div b

\* the last call was split, and SplitText is the text it was given
SplitCalled == constructed /\ call.op = "split"
SplitText == given[call.arg]

\* a chunk without its first n characters (empty when it has no more than n)
DropFirst(chunk, n) == SubSeq(chunk, n + 1, Len(chunk))

\* the first chunk in full, then the tail beyond the overlap of each later one
RECURSIVE MergeTails(_, _)
MergeTails(cs, n) ==
    IF cs = <<>> THEN <<>> ELSE DropFirst(Head(cs), n) \o MergeTails(Tail(cs), n)

OverlapMerge(cs, n) ==
    IF cs = <<>> THEN <<>> ELSE Head(cs) \o MergeTails(Tail(cs), n)

\* C1: for chunk_size > chunk_overlap > 0 and every text T, the first chunk
\* of split(T) followed by each later chunk's part after its first
\* chunk_overlap characters is T itself.
C1_RoundTrip ==
    (SplitCalled /\ chunk_overlap > 0) =>
        OverlapMerge(chunks, chunk_overlap) = SplitText

\* a split with an overlap whose trailing chunk lies wholly inside the overlap
C1_Witness ==
    /\ SplitCalled
    /\ chunk_overlap > 0
    /\ Len(chunks) >= 3
    /\ Len(chunks[Len(chunks)]) <= chunk_overlap
    /\ OverlapMerge(chunks, chunk_overlap) = SplitText

\* C2 as stated: the number of chunks is
\* ceil(max(len(T) - chunk_overlap, 0) / (chunk_size - chunk_overlap)) when
\* T is not empty, and 0 when it is.
C2_ChunkCountAsStated ==
    SplitCalled =>
        Len(chunks) = IF Len(SplitText) > 0
                      THEN CeilDiv(Max(Len(SplitText) - chunk_overlap, 0), Stride)
                      ELSE 0

\* C2 amended: the number of chunks is
\* ceil(len(T) / (chunk_size - chunk_overlap)), which is 0 for the empty text.
C2_ChunkCount ==
    SplitCalled =>
        /\ Len(chunks) = CeilDiv(Len(SplitText), Stride)
        /\ (SplitText = <<>> => chunks = <<>>)

\* a split of a non-empty text whose count differs from the stated formula
C2_Witness ==
    /\ SplitCalled
    /\ chunk_overlap > 0
    /\ Len(SplitText) > chunk_overlap
    /\ Len(chunks) = CeilDiv(Len(SplitText), Stride)
    /\ Len(chunks) > CeilDiv(Max(Len(SplitText) - chunk_overlap, 0), Stride)

\* the k-th chunk (k from 1) starts at this offset of the text
Offset(k) == (k - 1) * Stride

\* the window of the k-th chunk, cut at the end of the text
Window(text, k) ==
    SubSeq(text, Offset(k) + 1, Min(Offset(k) + chunk_size, Len(text)))

\* C8 as stated: every chunk is the substring of T of length at most
\* chunk_size at offset k * (chunk_size - chunk_overlap), and every chunk but
\* the last has length exactly chunk_size.
C8_ChunkSizeAsStated ==
    SplitCalled =>
        \A k \in 1..Len(chunks) :
            /\ Offset(k) < Len(SplitText)
            /\ chunks[k] = Window(SplitText, k)
            /\ Len(chunks[k]) <= chunk_size
            /\ (k < Len(chunks) => Len(chunks[k]) = chunk_size)

\* C8 amended: every chunk is the substring of T at offset
\* k * (chunk_size - chunk_overlap) of length
\* min(chunk_size, len(T) - offset); a chunk is shorter than chunk_size
\* exactly when its window runs past the end of T, which with an overlap can
\* be several trailing chunks; with chunk_overlap = 0 only the last can be.
C8_ChunkSize ==
    SplitCalled =>
        \A k \in 1..Len(chunks) :
            /\ Offset(k) < Len(SplitText)
            /\ chunks[k] = Window(SplitText, k)
            /\ Len(chunks[k]) = Min(chunk_size, Len(SplitText) - Offset(k))
            /\ (k < Len(chunks) /\ chunk_overlap = 0 => Len(chunks[k]) = chunk_size)

\* a split where a chunk that is not the last is shorter than chunk_size
C8_Witness ==
    /\ SplitCalled
    /\ \E k \in 1..Len(chunks) :
           /\ k < Len(chunks)
           /\ Len(chunks[k]) < chunk_size
           /\ chunks[k] = Window(SplitText, k)

\* C9: split_texts(texts) is the concatenation of split(t) over the
\* documents in input order, every chunk lies inside one document, an empty
\* document contributes no chunk, and split_texts([]) is empty.
C9_SplitTexts ==
    (constructed /\ call.op = "split_texts") =>
        LET per == [i \in 1..Len(given) |->
                        split(given[i], chunk_size, chunk_overlap)]
        IN /\ chunks = ConcatAll(per)
           /\ \A i \in 1..Len(given) : given[i] = <<>> => per[i] = <<>>
           /\ \A j \in 1..Len(chunks) :
                  \E i \in 1..Len(given) : \E k \in 1..Len(given[i]) :
                      chunks[j] = Window(given[i], k)
           /\ (given = <<>> => chunks = <<>>)

\* split_texts over an empty document and a document of several chunks
C9_Witness ==
    /\ constructed
    /\ call.op = "split_texts"
    /\ Len(given) = 2
    /\ \E i \in 1..2 : given[i] = <<>>
    /\ Len(chunks) >= 2

(***************************************************************************)
(* Properties of the loaders, checked under Spec.                          *)
(***************************************************************************)

\* the positions in path.files of the files with extension ext, ascending
RECURSIVE Ascending(_)
Ascending(S) ==
    IF S = {} THEN <<>>
    ELSE LET m == CHOOSE x \in S : \A y \in S : x <= y
         IN <<m>> \o Ascending(S \ {m})

WithExt(ext) == Ascending({i \in 1..Len(path.files) : path.files[i].ext = ext})

\* a text with a character that is not whitespace
NonBlank(text) == \E i \in 1..Len(text) : text[i] \notin Whitespace

\* a text without its leading and trailing whitespace
Trim(text) ==
    IF ~NonBlank(text) THEN <<>>
    ELSE LET inked == {i \in 1..Len(text) : text[i] \notin Whitespace}
             first == CHOOSE i \in inked : \A j \in inked : i <= j
             last == CHOOSE i \in inked : \A j \in inked : j <= i
         IN SubSeq(text, first, last)

\* a PDF that pypdf can read, not encrypted, with text on some page
Readable(f) ==
    /\ f.ext = "pdf"
    /\ f.ok
    /\ ~f.encrypted
    /\ \E k \in 1..Len(f.pages) : NonBlank(f.pages[k])

\* the positions of the PDFs that can be read and have text, ascending
ReadablePdfs ==
    Ascending({i \in 1..Len(path.files) : Readable(path.files[i])})

\* the text of PDF f: its non-blank pages, a blank line after each, trimmed
PdfText(f) ==
    LET inked == Ascending({k \in 1..Len(f.pages) : NonBlank(f.pages[k])})
    IN Trim(ConcatAll([k \in 1..Len(inked) |-> f.pages[inked[k]] \o <<"\n", "\n">>]))

\* the documents of the readable PDFs of the directory, in walk order
PdfContents == [k \in 1..Len(ReadablePdfs) |-> PdfText(path.files[ReadablePdfs[k]])]

\* the last n elements of a sequence
Last(seq, n) == SubSeq(seq, Len(seq) - n + 1, Len(seq))

\* the contents of the .txt files of the directory, in walk order
TxtContents == [k \in 1..Len(WithExt("txt")) |-> path.files[WithExt("txt")[k]].data]

AllDecodable == \A i \in 1..Len(path.files) :
                    path.files[i].ext = "txt" => path.files[i].ok

\* C3: DocumentLoader.load_documents on a directory holding only .txt
\* files returns their contents, one document per file, and raises nothing,
\* whether or not pypdf is available.
C3_TextOnlyDirectory ==
    ( /\ ret.op = "DocumentLoader"
      /\ isdir(path)
      /\ path.files # <<>>
      /\ \A i \in 1..Len(path.files) : path.files[i].ext = "txt" /\ path.files[i].ok )
    => /\ ret.exc = "none"
       /\ ret.value = TxtContents

\* C4: in a directory load a .txt file that fails to decode makes the load,
\* through TextFileLoader or through DocumentLoader, end in an error: the
\* call never returns a document list.
C4_DecodeErrorPropagates ==
    ( /\ ret.op \in {"TextFileLoader", "DocumentLoader"}
      /\ isdir(path)
      /\ ~AllDecodable )
    => /\ ret.exc # "none"
       /\ ret.value = <<>>

C6_EncryptedPolicy ==
    /\ ( /\ ret.op \in {"PDFFileLoader", "DocumentLoader"}
         /\ isfile(path) /\ path.suffix = "pdf" /\ path.files[1].encrypted )
       => /\ ret.exc # "none"
          /\ ret.value = <<>>
          /\ pdf_documents = <<>>
    /\ (ret.op = "PDFFileLoader" /\ isdir(path) /\ PDF_AVAILABLE)
       => /\ ret.exc = "none"
          /\ ret.opened = WithExt("pdf")
          /\ ret.value = pdf_documents
          /\ Len(pdf_returned) = 1 => ret.value = PdfContents
    /\ (ret.op = "DocumentLoader" /\ isdir(path) /\ PDF_AVAILABLE)
       => /\ ret.exc = "none" \/ (ret.exc = "ValueError" /\ ReadablePdfs = <<>>)
          /\ Last(ret.opened, Len(WithExt("pdf"))) = WithExt("pdf")
          /\ ret.exc = "none" =>
                 /\ Len(ret.value) >= Len(ReadablePdfs)
                 /\ Last(ret.value, Len(ReadablePdfs)) = PdfContents

\* a directory load that met an encrypted PDF between two readable ones
C6_Witness ==
    /\ ret.op = "PDFFileLoader"
    /\ isdir(path)
    /\ PDF_AVAILABLE
    /\ Len(path.files) = 3
    /\ Readable(path.files[1])
    /\ path.files[2].ext = "pdf" /\ path.files[2].encrypted
    /\ Readable(path.files[3])
    /\ ret.exc = "none"
    /\ Len(ret.value) = 2

\* C7: DocumentLoader.load_documents on a regular file that is neither .txt
\* nor .pdf raises the unsupported-type error, on a path that is neither a
\* file nor a directory the path-not-found error, in both cases without
\* opening a file or returning a document; a directory, whatever its name,
\* only takes the directory rule: .txt files are opened before .pdf files
\* and text documents come before PDF documents.
C7_Dispatch ==
    ret.op = "DocumentLoader" =>
        /\ (isfile(path) /\ path.suffix \notin {"txt", "pdf"}) =>
               /\ ret.exc = "ValueError" /\ ret.why = "unsupported file type"
               /\ ret.value = <<>> /\ ret.opened = <<>>
        /\ (~isfile(path) /\ ~isdir(path)) =>
               /\ ret.exc = "ValueError" /\ ret.why = "path does not exist"
               /\ ret.value = <<>> /\ ret.opened = <<>>
        /\ isdir(path) =>
               /\ ret.why \notin {"unsupported file type", "path does not exist",
                                   "not a directory or .txt file",
                                   "not a directory or .pdf file"}
               /\ \A a, b \in 1..Len(ret.opened) :
                      (a < b /\ path.files[ret.opened[b]].ext = "txt")
                          => path.files[ret.opened[a]].ext = "txt"
               /\ \A a \in 1..Len(ret.opened) :
                      path.files[ret.opened[a]].ext \in {"txt", "pdf"}
               /\ (ret.exc = "none" /\ AllDecodable) =>
                      ret.value = TxtContents \o PdfContents

\* a directory named like a text file, holding a PDF before a text file
C7_Witness ==
    /\ ret.op = "DocumentLoader"
    /\ isdir(path)
    /\ path.suffix = "txt"
    /\ Len(path.files) = 2
    /\ Readable(path.files[1])
    /\ path.files[2].ext = "txt"
    /\ ret.exc = "none"
    /\ ret.opened = <<2, 1>>
    /\ ret.value[1] = path.files[2].data

\* C10: every load_documents call on the same TextFileLoader or
\* PDFFileLoader returns the same list, and a list returned earlier (which
\* is the loader's own documents list) still reads as it did on return.
C10_RepeatableLoad ==
    /\ \A i \in 1..Len(txt_returned) :
           txt_returned[i] = txt_returned[1] /\ txt_documents = txt_returned[i]
    /\ \A i \in 1..Len(pdf_returned) :
           pdf_returned[i] = pdf_returned[1] /\ pdf_documents = pdf_returned[i]

=============================================================================
